---- MODULE Spec2Model ----
(***************************************************************************)
(* Gateway service of rs-template (src/services/gateway/main.py):          *)
(* bearer-credential verification (verify_token) followed by the reverse   *)
(* proxy handlers proxy_to_api and proxy_to_ai.                            *)
(*                                                                         *)
(* Strings are sequences of symbols.  The Authorization header and the     *)
(* tokens are spelled character by character, so that startswith, == and   *)
(* str.replace are computed as Python computes them; opaque values (user   *)
(* ids, e-mail addresses, URLs) are one-symbol strings.  The empty string  *)
(* is <<>>.                                                                *)
(***************************************************************************)
EXTENDS Integers, Sequences, FiniteSets, TLC

VARIABLES
    ENVIRONMENT,        \* main.py:19, module-level configuration
    TEST_BYPASS_TOKEN,  \* main.py:26
    IS_CLOUD_RUN,       \* main.py:29
    jwks_client,        \* main.py:64-69: "none" or "client"
    jwkCache,           \* key set held by the PyJWKClient: "empty" or "loaded"
    req,                \* the request slots
    served,             \* number of requests completed so far
    openai_client,      \* ai/main.py:26-30: "none" or "client"
    aiReq,              \* the request the AI service is handling
    db,                 \* api/main.py:22-31: "none" or "client"
    items,              \* the documents of db.collection("items"), by document id
    creator,            \* for every document ever created, the user who created it
    apiReq              \* the request the API service is handling

\* the state of the two upstream services
services == <<openai_client, aiReq, db, items, creator, apiReq>>

vars == <<ENVIRONMENT, TEST_BYPASS_TOKEN, IS_CLOUD_RUN, jwks_client, jwkCache, req, served,
          services>>

config == <<ENVIRONMENT, TEST_BYPASS_TOKEN, IS_CLOUD_RUN, jwks_client>>

(***************************************************************************)
(* Bounds of the model.                                                    *)
(***************************************************************************)
MaxServed == 2      \* requests a slot serves one after the other
Now == 5            \* the clock jwt.decode reads

(***************************************************************************)
(* String helpers.                                                         *)
(***************************************************************************)
None == <<"<None>">>            \* Python's None where a string is expected

StartsWith(s, p) == Len(s) >= Len(p) /\ SubSeq(s, 1, Len(p)) = p

Drop(s, n) == SubSeq(s, n + 1, Len(s))

\* str.replace(old, ""): every non-overlapping occurrence, left to right.
RECURSIVE RemoveAll(_, _)
RemoveAll(s, old) ==
    IF s = <<>> THEN <<>>
    ELSE IF StartsWith(s, old) THEN RemoveAll(Drop(s, Len(old)), old)
    ELSE <<Head(s)>> \o RemoveAll(Tail(s), old)

Bearer == <<"B", "e", "a", "r", "e", "r", " ">>

\* dict.get(key, default)
Get(d, key, default) == IF key \in DOMAIN d THEN d[key] ELSE default

(***************************************************************************)
(* Configuration values.                                                   *)
(***************************************************************************)
PROJECT_ID      == <<"PROJECT_NAME">>
API_SERVICE_URL == <<"http://localhost:8081">>
AI_SERVICE_URL  == <<"http://localhost:8082">>

Environments == {"development", "production"}

BypassT == <<"t", "1">>
OtherT  == <<"t", "2">>

(***************************************************************************)
(* JSON Web Tokens.  A compact token is header "." payload "." signature.  *)
(* The header symbol carries the key id and the algorithm, the payload     *)
(* symbol the claims, and the signature symbol names the private key that  *)
(* signed exactly this header and payload ("sX": no valid signature, such  *)
(* as a signature with one byte flipped).                                  *)
(***************************************************************************)
HdrSyms == {"hK1", "hK2", "hK9", "hHS"}
SigSyms == {"sK1", "sK2", "sX"}
PayloadSyms == {"pOk", "pSub", "pDev", "pAdmin", "pAud", "pNoAud", "pExp", "pNbf"}

HdrKid(h) == CASE h = "hK1" -> "K1"
               [] h = "hK2" -> "K2"
               [] h = "hK9" -> "K9"
               [] h = "hHS" -> "K1"

HdrAlg(h) == IF h = "hHS" THEN "HS256" ELSE "RS256"

SigOf(key) == CASE key = "K1" -> "sK1"
                [] key = "K2" -> "sK2"
                [] OTHER      -> "sNone"

JwksKids == {"K1", "K2"}        \* the key ids the JWKS endpoint publishes

PayloadClaims(p) ==
    CASE p = "pOk"    -> [sub |-> <<"user_1">>, user_id |-> <<"user_1">>,
                          email |-> <<"u1@example.com">>, aud |-> PROJECT_ID,
                          exp |-> Now + 1, nbf |-> Now]
      [] p = "pSub"   -> [sub |-> <<"user_2">>, aud |-> PROJECT_ID]
      [] p = "pDev"   -> [user_id |-> <<"dev_user">>, email |-> <<"dev@example.com">>,
                          aud |-> PROJECT_ID]
      [] p = "pAdmin" -> [user_id |-> <<"test_admin_123">>,
                          email |-> <<"admin@test.example.com">>,
                          name |-> <<"Test Admin">>, role |-> <<"admin">>,
                          aud |-> PROJECT_ID]
      [] p = "pAud"   -> [sub |-> <<"user_1">>, user_id |-> <<"user_1">>,
                          aud |-> <<"OTHER_PROJECT">>, exp |-> Now + 1]
      [] p = "pNoAud" -> [sub |-> <<"user_1">>, user_id |-> <<"user_1">>, exp |-> Now + 1]
      [] p = "pExp"   -> [sub |-> <<"user_1">>, user_id |-> <<"user_1">>,
                          aud |-> PROJECT_ID, exp |-> Now]
      [] p = "pNbf"   -> [sub |-> <<"user_1">>, user_id |-> <<"user_1">>,
                          aud |-> PROJECT_ID, exp |-> Now + 2, nbf |-> Now + 1]

Jwt(h, p, s) == <<h, ".", p, ".", s>>

WellFormedJwt(tok) ==
    /\ Len(tok) = 5
    /\ tok[2] = "." /\ tok[4] = "."
    /\ tok[1] \in HdrSyms /\ tok[3] \in PayloadSyms /\ tok[5] \in SigSyms

(***************************************************************************)
(* Identities and results of verify_token.                                 *)
(***************************************************************************)
TestAdmin == [user_id |-> <<"test_admin_123">>, email |-> <<"admin@test.example.com">>,
              name |-> <<"Test Admin">>, role |-> <<"admin">>]

DevUser == [user_id |-> <<"dev_user">>, email |-> <<"dev@example.com">>]

NoUser == [unset |-> <<>>]      \* no identity (verification has not succeeded)

\* return <identity>
Accept(user, cache, fetch) ==
    [status |-> 200, detail |-> <<>>, user |-> user, cache |-> cache, fetch |-> fetch]

\* raise HTTPException(status_code, detail)
Reject(status, detail, cache, fetch) ==
    [status |-> status, detail |-> detail, user |-> NoUser, cache |-> cache,
     fetch |-> fetch]

\* `not authorization`: None or the empty string
HeaderMissing(authorization) == authorization = None \/ authorization = <<>>

HasBearerPrefix_NoSpace(authorization) ==
    StartsWith(authorization, <<"B", "e", "a", "r", "e", "r">>)

\* authorization.startswith("Bearer ")
HasBearerPrefix(authorization) == StartsWith(authorization, Bearer)

BypassMatch_NotInProduction(authorization) ==
    /\ TEST_BYPASS_TOKEN # <<>>
    /\ authorization = Bearer \o TEST_BYPASS_TOKEN
    /\ ENVIRONMENT # "production"

BypassMatch_NoEmptyCheck(authorization) == authorization = Bearer \o TEST_BYPASS_TOKEN

\* TEST_BYPASS_TOKEN and authorization == f"Bearer {TEST_BYPASS_TOKEN}"
BypassMatch(authorization) ==
    /\ TEST_BYPASS_TOKEN # <<>>
    /\ authorization = Bearer \o TEST_BYPASS_TOKEN

DevMode_AnyEnvironment == jwks_client = "none"

\* ENVIRONMENT == "development" and not jwks_client
DevMode == ENVIRONMENT = "development" /\ jwks_client = "none"

(***************************************************************************)
(* jwks_client.get_signing_key_from_jwt(token): read the key id from the   *)
(* unverified header, look it up in the cached key set, and fetch the key  *)
(* set from the JWKS endpoint when there is no cached set or the key id is *)
(* not in it.  fetchOk is the outcome of that fetch, should it be made.    *)
(* Result: the key (or "" on failure), the exception raised (or ""), the   *)
(* cache afterwards and the fetch made: "none", "ok" or "failed" (the      *)
(* endpoint was unreachable or did not answer within the timeout).         *)
(***************************************************************************)
GetSigningKey(token, cache, fetchOk) ==
    IF ~WellFormedJwt(token)
    THEN [key |-> "", err |-> "DecodeError", cache |-> cache, fetch |-> "none"]
    ELSE LET kid == HdrKid(token[1]) IN
         IF cache = "loaded" /\ kid \in JwksKids
         THEN [key |-> kid, err |-> "", cache |-> cache, fetch |-> "none"]
         ELSE IF ~fetchOk
         THEN [key |-> "", err |-> "PyJWKClientConnectionError", cache |-> "empty",
               fetch |-> "failed"]
         ELSE IF kid \in JwksKids
         THEN [key |-> kid, err |-> "", cache |-> "loaded", fetch |-> "ok"]
         ELSE [key |-> "", err |-> "PyJWKClientError", cache |-> "loaded",
               fetch |-> "ok"]

\* jwt.decode(token, signing_key.key, algorithms=["RS256"]): no audience given
JwtDecode_NoAudience(token, key) ==
    LET claims == PayloadClaims(token[3]) IN
    IF HdrAlg(token[1]) # "RS256"
    THEN [err |-> "InvalidAlgorithmError", payload |-> NoUser]
    ELSE IF token[5] # SigOf(key)
    THEN [err |-> "InvalidSignatureError", payload |-> NoUser]
    ELSE IF "nbf" \in DOMAIN claims /\ claims.nbf > Now
    THEN [err |-> "ImmatureSignatureError", payload |-> NoUser]
    ELSE IF "exp" \in DOMAIN claims /\ claims.exp <= Now
    THEN [err |-> "ExpiredSignatureError", payload |-> NoUser]
    ELSE [err |-> "", payload |-> claims]

\* jwt.decode(token, signing_key.key, algorithms=["RS256"], audience=PROJECT_ID)
JwtDecode(token, key) ==
    LET claims == PayloadClaims(token[3]) IN
    IF HdrAlg(token[1]) # "RS256"
    THEN [err |-> "InvalidAlgorithmError", payload |-> NoUser]
    ELSE IF token[5] # SigOf(key)
    THEN [err |-> "InvalidSignatureError", payload |-> NoUser]
    ELSE IF "nbf" \in DOMAIN claims /\ claims.nbf > Now
    THEN [err |-> "ImmatureSignatureError", payload |-> NoUser]
    ELSE IF "exp" \in DOMAIN claims /\ claims.exp <= Now
    THEN [err |-> "ExpiredSignatureError", payload |-> NoUser]
    ELSE IF "aud" \notin DOMAIN claims
    THEN [err |-> "MissingRequiredClaimError", payload |-> NoUser]
    ELSE IF claims.aud # PROJECT_ID
    THEN [err |-> "InvalidAudienceError", payload |-> NoUser]
    ELSE [err |-> "", payload |-> claims]

RealVerify_UnavailableOnFetchFailure(authorization, cache, fetchOk) ==
    LET token == RemoveAll(authorization, Bearer)
        sk    == GetSigningKey(token, cache, fetchOk)
    IN  IF sk.err = "PyJWKClientConnectionError"
        THEN Reject(503, <<"Authentication service unavailable">>, sk.cache, sk.fetch)
        ELSE IF sk.err # ""
        THEN Reject(401, <<"Invalid token: ", sk.err>>, sk.cache, sk.fetch)
        ELSE LET d == JwtDecode(token, sk.key) IN
             IF d.err # ""
             THEN Reject(401, <<"Invalid token: ", d.err>>, sk.cache, sk.fetch)
             ELSE Accept(d.payload, sk.cache, sk.fetch)

RealVerify_NoAudienceArgument(authorization, cache, fetchOk) ==
    LET token == RemoveAll(authorization, Bearer)
        sk    == GetSigningKey(token, cache, fetchOk)
    IN  IF sk.err # ""
        THEN Reject(401, <<"Invalid token: ", sk.err>>, sk.cache, sk.fetch)
        ELSE LET d == JwtDecode_NoAudience(token, sk.key) IN
             IF d.err # ""
             THEN Reject(401, <<"Invalid token: ", d.err>>, sk.cache, sk.fetch)
             ELSE Accept(d.payload, sk.cache, sk.fetch)

\* the try block of verify_token: every exception becomes a 401
RealVerify(authorization, cache, fetchOk) ==
    LET token == RemoveAll(authorization, Bearer)
        sk    == GetSigningKey(token, cache, fetchOk)
    IN  IF sk.err # ""
        THEN Reject(401, <<"Invalid token: ", sk.err>>, sk.cache, sk.fetch)
        ELSE LET d == JwtDecode(token, sk.key) IN
             IF d.err # ""
             THEN Reject(401, <<"Invalid token: ", d.err>>, sk.cache, sk.fetch)
             ELSE Accept(d.payload, sk.cache, sk.fetch)

verify_token_DevelopmentFirst(authorization, cache, fetchOk) ==
    IF DevMode
    THEN Accept(DevUser, cache, "none")
    ELSE IF HeaderMissing(authorization)
    THEN Reject(401, <<"Authorization header missing">>, cache, "none")
    ELSE IF ~HasBearerPrefix(authorization)
    THEN Reject(401, <<"Invalid authorization format. Expected: Bearer <token>">>,
                cache, "none")
    ELSE IF BypassMatch(authorization)
    THEN Accept(TestAdmin, cache, "none")
    ELSE IF jwks_client = "none"
    THEN Reject(503, <<"Authentication service not configured">>, cache, "none")
    ELSE RealVerify(authorization, cache, fetchOk)

verify_token_NotConfiguredIs401(authorization, cache, fetchOk) ==
    IF HeaderMissing(authorization)
    THEN Reject(401, <<"Authorization header missing">>, cache, "none")
    ELSE IF ~HasBearerPrefix(authorization)
    THEN Reject(401, <<"Invalid authorization format. Expected: Bearer <token>">>,
                cache, "none")
    ELSE IF BypassMatch(authorization)
    THEN Accept(TestAdmin, cache, "none")
    ELSE IF DevMode
    THEN Accept(DevUser, cache, "none")
    ELSE IF jwks_client = "none"
    THEN Reject(401, <<"Authentication service not configured">>, cache, "none")
    ELSE RealVerify(authorization, cache, fetchOk)

\* verify_token(authorization)
verify_token(authorization, cache, fetchOk) ==
    IF HeaderMissing(authorization)
    THEN Reject(401, <<"Authorization header missing">>, cache, "none")
    ELSE IF ~HasBearerPrefix(authorization)
    THEN Reject(401, <<"Invalid authorization format. Expected: Bearer <token>">>,
                cache, "none")
    ELSE IF BypassMatch(authorization)
    THEN Accept(TestAdmin, cache, "none")
    ELSE IF DevMode
    THEN Accept(DevUser, cache, "none")
    ELSE IF jwks_client = "none"
    THEN Reject(503, <<"Authentication service not configured">>, cache, "none")
    ELSE RealVerify(authorization, cache, fetchOk)

(***************************************************************************)
(* Header mappings: functions from header names to values.  Names keep     *)
(* their letter case.                                                      *)
(***************************************************************************)
Lower(name) ==
    CASE name = "X-User-Id"      -> "x-user-id"
      [] name = "X-User-Email"   -> "x-user-email"
      [] name = "Authorization"  -> "authorization"
      [] name = "Content-Type"   -> "content-type"
      [] name = "Content-Length" -> "content-length"
      [] name = "CONTENT-LENGTH" -> "content-length"
      [] name = "Content-Encoding"  -> "content-encoding"
      [] name = "Transfer-Encoding" -> "transfer-encoding"
      [] name = "TRANSFER-ENCODING" -> "transfer-encoding"
      [] name = "Connection"     -> "connection"
      [] name = "X-Request-Id"   -> "x-request-id"
      [] OTHER                   -> name

\* {key: value for key, value in h.items() if key.lower() not in excluded}
Without(h, excluded) ==
    [k \in {n \in DOMAIN h : Lower(n) \notin excluded} |-> h[k]]

\* d[key] = value
Set(d, key, value) == [k \in DOMAIN d \cup {key} |-> IF k = key THEN value ELSE d[k]]

NoHeaders == [k \in {} |-> <<>>]

(***************************************************************************)
(* get_auth_token(target_url).  fetchOk is the outcome of fetch_id_token,  *)
(* should it be called.  Identity tokens are minted by the ambient         *)
(* credential source for the gateway's own service account.                *)
(***************************************************************************)
IdToken(target_url) == <<"id-token-for:">> \o target_url

get_auth_token_ApiAudience(target_url, fetchOk) ==
    IF ~IS_CLOUD_RUN THEN None
    ELSE IF fetchOk THEN IdToken(API_SERVICE_URL)
    ELSE None

get_auth_token(target_url, fetchOk) ==
    IF ~IS_CLOUD_RUN THEN None
    ELSE IF fetchOk THEN IdToken(target_url)
    ELSE None

\* what get_auth_token did: "none" (no call, not on Cloud Run), "ok" (fetch_id_token
\* returned a token) or "raised" (fetch_id_token raised, caught at main.py:42)
TokenFetch(fetchOk) ==
    IF ~IS_CLOUD_RUN THEN "none" ELSE IF fetchOk THEN "ok" ELSE "raised"

Truthy(s) == s # None /\ s # <<>>

(***************************************************************************)
(* The inbound request and the routes of the application.                  *)
(***************************************************************************)
ApiPrefix == <<"/", "api", "/">>
AiPrefix  == <<"/", "ai", "/">>

ProxyMethods == {"GET", "POST", "PUT", "DELETE", "PATCH", "OPTIONS"}

\* the path of some route of the application (whatever the method)
MatchesRoute(path) ==
    \/ path \in {<<"/">>, <<"/", "health">>, <<"/", "debug", "/", "env">>}
    \/ StartsWith(path, ApiPrefix)
    \/ StartsWith(path, AiPrefix)

\* the path with its trailing slash removed, or with one added
ToggleSlash(path) ==
    IF path # <<>> /\ path[Len(path)] = "/" THEN SubSeq(path, 1, Len(path) - 1)
    ELSE path \o <<"/">>

Route_ApiCatchesAll(method, path) ==
    IF path = <<"/">> THEN (IF method = "GET" THEN "root" ELSE "405")
    ELSE IF path = <<"/", "health">> THEN (IF method = "GET" THEN "health" ELSE "405")
    ELSE IF path = <<"/", "debug", "/", "env">>
         THEN (IF method = "GET" THEN "debug" ELSE "405")
    ELSE IF StartsWith(path, AiPrefix)
         THEN (IF method \in ProxyMethods THEN "ai" ELSE "405")
    ELSE IF method \in ProxyMethods THEN "api" ELSE "405"

\* the route the application's router selects for a method and a path.  The
\* application keeps the framework's default redirect_slashes: a path that
\* matches no route but matches one with its trailing slash toggled is
\* answered by a redirect.
Route(method, path) ==
    IF path = <<"/">> THEN (IF method = "GET" THEN "root" ELSE "405")
    ELSE IF path = <<"/", "health">> THEN (IF method = "GET" THEN "health" ELSE "405")
    ELSE IF path = <<"/", "debug", "/", "env">>
         THEN (IF method = "GET" THEN "debug" ELSE "405")
    ELSE IF StartsWith(path, ApiPrefix)
         THEN (IF method \in ProxyMethods THEN "api" ELSE "405")
    ELSE IF StartsWith(path, AiPrefix)
         THEN (IF method \in ProxyMethods THEN "ai" ELSE "405")
    ELSE IF MatchesRoute(ToggleSlash(path)) THEN "307"
    ELSE "404"

\* the {path:path} parameter of a proxy route
PathParam(route, path) ==
    IF route = "api" THEN Drop(path, Len(ApiPrefix)) ELSE Drop(path, Len(AiPrefix))

\* the authorization parameter: Header(None)
Authorization(headers) == Get(headers, "authorization", None)

BaseUrl(route) == IF route = "api" THEN API_SERVICE_URL ELSE AI_SERVICE_URL

NoOut  == [unset |-> <<>>]
NoResp == [unset |-> <<>>]
NoReply == [unset |-> <<>>]

Idle == [pc |-> "idle", method |-> "", path |-> <<>>, query |-> <<>>,
         headers |-> NoHeaders, body |-> <<>>, route |-> "",
         user |-> NoUser, fetch |-> "none", out |-> NoOut, nsent |-> 0,
         tokfetch |-> "none", failure |-> "", resp |-> NoResp, reply |-> NoReply,
         client |-> "connected"]

BuildHeaders_KeepAuthorization(route, headers, user, auth_token) ==
    LET h0 == Without(headers, {"host"})
        h1 == Set(h0, "X-User-Id", Get(user, "user_id", <<>>))
        h2 == IF route = "api" THEN Set(h1, "X-User-Email", Get(user, "email", <<>>))
              ELSE h1
    IN  IF Truthy(auth_token) THEN Set(h2, "Authorization", Bearer \o auth_token) ELSE h2

\* the outbound header set of proxy_to_api (X-User-Email included) and proxy_to_ai
BuildHeaders(route, headers, user, auth_token) ==
    LET h0 == Without(headers, {"host", "authorization"})
        h1 == Set(h0, "X-User-Id", Get(user, "user_id", <<>>))
        h2 == IF route = "api" THEN Set(h1, "X-User-Email", Get(user, "email", <<>>))
              ELSE h1
    IN  IF Truthy(auth_token) THEN Set(h2, "Authorization", Bearer \o auth_token) ELSE h2

BuildUrl_AlwaysQuestionMark(route, path, query) ==
    BaseUrl(route) \o <<"/">> \o PathParam(route, path) \o <<"?">> \o query

\* url = f"{BASE}/{path}", then f"{url}?{query_params}" when the query is not empty
BuildUrl(route, path, query) ==
    LET url == BaseUrl(route) \o <<"/">> \o PathParam(route, path)
    IN  IF query # <<>> THEN url \o <<"?">> \o query ELSE url

BuildContent_AlwaysBody(method, body) == body

\* content=await request.body() if request.method in [...] else None
BuildContent(method, body) ==
    IF method \in {"POST", "PUT", "PATCH"} THEN body ELSE None

\* whether the spelling of a path symbol contains "file"
SpelledWithFile(sym) == sym \in {"file", "files", "profile"}

\* "file" in path
ContainsFile(path) == \E i \in 1..Len(path) : SpelledWithFile(path[i])

\* httpx.Timeout(default, connect=...): the four phases of a request
Timeout(default, connect) ==
    [connect |-> connect, read |-> default, write |-> default, pool |-> default]

TimeoutPolicy_FileSegmentOnly(route, path) ==
    IF route = "api" /\ (\E i \in 1..Len(PathParam(route, path)) :
                            PathParam(route, path)[i] \in {"file", "files"})
    THEN Timeout(60, 10)
    ELSE Timeout(30, 30)

\* proxy_to_api: httpx.Timeout(60.0, connect=10.0) if "file" in path else
\* httpx.Timeout(30.0); proxy_to_ai: AsyncClient(timeout=30.0)
TimeoutPolicy(route, path) ==
    IF route = "api" /\ ContainsFile(PathParam(route, path))
    THEN Timeout(60, 10)
    ELSE Timeout(30, 30)

\* the request handed to client.request(...)
Outbound(r, tokenOk) ==
    [method  |-> r.method,
     timeout |-> TimeoutPolicy(r.route, r.path),
     url     |-> BuildUrl(r.route, r.path, r.query),
     headers |-> BuildHeaders(r.route, r.headers, r.user,
                              get_auth_token(BaseUrl(r.route), tokenOk)),
     content |-> BuildContent(r.method, r.body)]

HopByHop_NoContentEncoding == {"content-length", "transfer-encoding", "connection"}

HopByHop == {"content-encoding", "content-length", "transfer-encoding", "connection"}

\* response.headers.items(): httpx yields the names in lower case
Items(h) == [k \in {Lower(n) : n \in DOMAIN h} |-> h[CHOOSE n \in DOMAIN h : Lower(n) = k]]

\* the value of a Content-Length header computed from a body
ContentLength(body) == <<"len-of:">> \o body

\* Response(content, status_code, headers, media_type): the given headers with
\* lower-cased names, then a content-length computed from the body unless the
\* headers name one (none for 1xx, 204 and 304), then a content-type from
\* media_type unless the headers name one
StarletteResponse(content, status_code, headers, media_type) ==
    LET h0 == [k \in {Lower(n) : n \in DOMAIN headers} |->
                  headers[CHOOSE n \in DOMAIN headers : Lower(n) = k]]
        h1 == IF /\ "content-length" \notin DOMAIN h0
                 /\ ~(status_code < 200 \/ status_code \in {204, 304})
              THEN Set(h0, "content-length", ContentLength(content))
              ELSE h0
    IN  [status  |-> status_code,
         body    |-> content,
         headers |-> IF media_type # None /\ "content-type" \notin DOMAIN h0
                     THEN Set(h1, "content-type", media_type)
                     ELSE h1]

RelayResponse_ErrorsAsBadGateway(route, resp) ==
    LET rh == Items(resp.headers)
        headers_to_forward == Without(rh, HopByHop)
    IN  IF resp.status >= 500
        THEN StarletteResponse(<<"{detail: upstream error}">>, 502, NoHeaders,
                               <<"application/json">>)
        ELSE StarletteResponse(resp.content, resp.status, headers_to_forward,
                               Get(rh, "content-type", <<"application/json">>))

RelayResponse_JsonMediaType(route, resp) ==
    LET rh == Items(resp.headers)
        headers_to_forward == Without(rh, HopByHop \cup {"content-type"})
    IN  StarletteResponse(resp.content, resp.status, headers_to_forward,
                          IF "application/json" \in
                                 {Get(rh, "content-type", <<>>)[i] :
                                     i \in 1..Len(Get(rh, "content-type", <<>>))}
                          THEN <<"application/json">>
                          ELSE Get(rh, "content-type", <<"application/json">>))

\* the tail of proxy_to_api and proxy_to_ai: the response returned to the caller
RelayResponse(route, resp) ==
    LET rh == Items(resp.headers)
        headers_to_forward == Without(rh, HopByHop)
    IN  IF route = "api"
        THEN StarletteResponse(resp.content, resp.status, headers_to_forward,
                               IF "application/json" \in
                                      {Get(rh, "content-type", <<>>)[i] :
                                          i \in 1..Len(Get(rh, "content-type", <<>>))}
                               THEN <<"application/json">>
                               ELSE Get(rh, "content-type", <<>>))
        ELSE StarletteResponse(resp.content, resp.status, headers_to_forward,
                               Get(rh, "content-type", <<"application/json">>))

\* the JSON error FastAPI returns for an HTTPException: {"detail": detail}
ErrorReply(status, detail) ==
    [status |-> status, body |-> <<"{detail:">> \o detail \o <<"}">>,
     headers |-> [k \in {"content-type"} |-> <<"application/json">>]]

\* the redirect the router answers when toggling the trailing slash matches
RedirectReply(path) ==
    [status |-> 307, body |-> <<>>,
     headers |-> [k \in {"location"} |-> ToggleSlash(path)]]

\* the dict an endpoint that does not proxy returns
LocalJson(route) ==
    IF route = "root"
    THEN [service |-> <<"gateway">>, project |-> PROJECT_ID,
          environment |-> <<ENVIRONMENT>>, status |-> <<"healthy">>]
    ELSE IF route = "health"
    THEN [status |-> <<"healthy">>, service |-> <<"gateway">>,
          version |-> <<"1.0.0">>, environment |-> <<ENVIRONMENT>>]
    ELSE [environment |-> <<ENVIRONMENT>>,
          test_bypass_token_configured |-> <<IF TEST_BYPASS_TOKEN # <<>> THEN "true" ELSE "false">>,
          test_bypass_token_length |-> ContentLength(TEST_BYPASS_TOKEN),
          clerk_jwks_url_configured |-> <<"true">>,
          jwks_configured |-> <<IF jwks_client # "none" THEN "true" ELSE "false">>,
          project_id |-> PROJECT_ID]

LocalReply_DegradedWithoutJwks(route) ==
    [status |-> IF jwks_client = "none" /\ ENVIRONMENT # "development" THEN 503 ELSE 200,
     body |-> IF route = "debug" THEN <<"{environment, test_bypass_token_configured, ...}">>
              ELSE <<"{status: healthy, service: gateway, ...}">>,
     json |-> IF jwks_client = "none" /\ ENVIRONMENT # "development" /\ route # "debug"
              THEN [LocalJson(route) EXCEPT !.status = <<"degraded">>]
              ELSE LocalJson(route),
     headers |-> [k \in {"content-type"} |-> <<"application/json">>]]

\* the JSON answers of the endpoints that do not proxy (root, health, debug_env)
LocalReply(route) ==
    [status |-> 200,
     body |-> IF route = "debug" THEN <<"{environment, test_bypass_token_configured, ...}">>
              ELSE <<"{status: healthy, service: gateway, ...}">>,
     json |-> LocalJson(route),
     headers |-> [k \in {"content-type"} |-> <<"application/json">>]]

(***************************************************************************)
(* Inputs of the model: the requests clients send and the responses the    *)
(* upstream services give.                                                 *)
(***************************************************************************)
JwtTokens == {Jwt(h, p, s) : h \in HdrSyms, p \in PayloadSyms, s \in SigSyms}

MalformedHeaders ==
    { <<"I", "n", "v", "a", "l", "i", "d">>,                     \* InvalidFormat
      <<"b", "e", "a", "r", "e", "r", " ">> \o BypassT,           \* lower-case scheme
      <<"B", "e", "a", "r", "e", "r">>,                           \* no space
      <<"B", "e", "a", "r", "e", "r">> \o BypassT,                \* no space, token
      <<" ">> \o Bearer \o BypassT,                               \* leading space
      BypassT }                                                   \* the bare token

BearerHeaders ==
    { Bearer,                                                     \* empty token
      Bearer \o BypassT,
      Bearer \o OtherT,
      Bearer \o BypassT \o <<"x">>,
      Bearer \o <<"T", "1">>,
      Bearer \o Bearer \o Jwt("hK1", "pOk", "sK1") }
    \cup {Bearer \o t : t \in JwtTokens}

AuthHeaders == {None, <<>>} \cup MalformedHeaders \cup BearerHeaders

\* the inbound headers of a request that presents `auth`
InboundHeaders(auth, spoof) ==
    LET h0 == [k \in {"host"} |-> <<"gateway.example.com">>]
        h1 == IF auth = None THEN h0 ELSE Set(h0, "authorization", auth)
    IN  IF spoof THEN Set(h1, "x-user-id", <<"spoofed_user">>) ELSE h1

ProxyShapes ==
    { [method |-> "GET",  path |-> ApiPrefix \o <<"users", "/", "me">>, body |-> <<>>],
      [method |-> "POST", path |-> AiPrefix \o <<"chat">>, body |-> <<"{}">>] }

LocalShapes ==
    { [method |-> "GET",  path |-> <<"/">>, body |-> <<>>],
      [method |-> "GET",  path |-> <<"/", "health">>, body |-> <<>>],
      [method |-> "GET",  path |-> <<"/", "debug", "/", "env">>, body |-> <<>>],
      [method |-> "GET",  path |-> <<"/", "other">>, body |-> <<>>],
      [method |-> "POST", path |-> <<"/", "health">>, body |-> <<>>] }

UpstreamResponses ==
    { [status |-> 200, content |-> <<"{ok}">>,
       headers |-> [k \in {"Content-Type", "Content-Length"} |->
                       IF k = "Content-Type" THEN <<"application/json">> ELSE <<"4">>]],
      [status |-> 400, content |-> <<"{detail: Messages are required}">>,
       headers |-> [k \in {"content-type"} |-> <<"application/json">>]],
      [status |-> 200, content |-> <<"bytes">>,
       headers |-> [k \in {"content-type"} |-> <<"application/octet-stream">>]] }

(***************************************************************************)
(* Actions.  A request is received, routed, verified (the verify_token     *)
(* dependency of the proxy routes), forwarded, answered by the upstream    *)
(* (or not), and relayed.                                                  *)
(***************************************************************************)
Update_SharedIdentity(r, new) ==
    /\ req' = [q \in DOMAIN req |->
                  IF q = r THEN new
                  ELSE IF req[q].user # NoUser /\ new.user # NoUser
                  THEN [req[q] EXCEPT !.user = new.user]
                  ELSE req[q]]
    /\ UNCHANGED services

\* a step of the gateway: one request slot changes, the upstream services do not
Update(r, new) == req' = [req EXCEPT ![r] = new] /\ UNCHANGED services

\* a client sends a request under /api/ or /ai/
ReceiveProxy(r) ==
    /\ req[r].pc = "idle"
    /\ served < MaxServed
    /\ \E shape \in ProxyShapes, auth \in AuthHeaders, spoof \in BOOLEAN :
          Update(r, [Idle EXCEPT !.pc = "received", !.method = shape.method,
                                 !.path = shape.path, !.body = shape.body,
                                 !.headers = InboundHeaders(auth, spoof)])
    /\ UNCHANGED <<config, jwkCache, served>>

\* a client sends a request to another path
ReceiveLocal(r) ==
    /\ req[r].pc = "idle"
    /\ served < MaxServed
    /\ \E shape \in LocalShapes, auth \in {None, Bearer \o BypassT} :
          Update(r, [Idle EXCEPT !.pc = "received", !.method = shape.method,
                                 !.path = shape.path, !.body = shape.body,
                                 !.headers = InboundHeaders(auth, FALSE)])
    /\ UNCHANGED <<config, jwkCache, served>>

\* the router selects the endpoint; the endpoints without dependencies answer at once
Dispatch(r) ==
    /\ req[r].pc = "received"
    /\ LET route == Route(req[r].method, req[r].path) IN
       IF route \in {"api", "ai"}
       THEN Update(r, [req[r] EXCEPT !.pc = "routed", !.route = route])
       ELSE IF route = "404"
       THEN Update(r, [req[r] EXCEPT !.pc = "done", !.route = route,
                          !.reply = ErrorReply(404, <<"Not Found">>)])
       ELSE IF route = "405"
       THEN Update(r, [req[r] EXCEPT !.pc = "done", !.route = route,
                          !.reply = ErrorReply(405, <<"Method Not Allowed">>)])
       ELSE IF route = "307"
       THEN Update(r, [req[r] EXCEPT !.pc = "done", !.route = route,
                          !.reply = RedirectReply(req[r].path)])
       ELSE Update(r, [req[r] EXCEPT !.pc = "done", !.route = route,
                          !.reply = LocalReply(route)])
    /\ UNCHANGED <<config, jwkCache, served>>

\* user = Depends(verify_token)
Verify(r) ==
    /\ req[r].pc = "routed"
    /\ \E fetchOk \in BOOLEAN :
          LET v == verify_token(Authorization(req[r].headers), jwkCache, fetchOk) IN
          /\ jwkCache' = v.cache
          /\ IF v.status = 200
             THEN Update(r, [req[r] EXCEPT !.pc = "verified", !.user = v.user,
                                !.fetch = v.fetch])
             ELSE Update(r, [req[r] EXCEPT !.pc = "done", !.fetch = v.fetch,
                                !.reply = ErrorReply(v.status, v.detail)])
    /\ UNCHANGED <<config, served>>

Forward_WithoutVerification(r) ==
    /\ req[r].pc \in {"routed", "verified"}
    /\ \E tokenOk \in BOOLEAN :
          Update(r, [req[r] EXCEPT !.pc = "awaiting", !.out = Outbound(req[r], tokenOk),
                             !.tokfetch = TokenFetch(tokenOk), !.nsent = @ + 1])
    /\ UNCHANGED <<config, jwkCache, served>>

\* proxy_to_api / proxy_to_ai up to `await client.request(...)`
Forward(r) ==
    /\ req[r].pc = "verified"
    /\ \E tokenOk \in BOOLEAN :
          Update(r, [req[r] EXCEPT !.pc = "awaiting", !.out = Outbound(req[r], tokenOk),
                             !.tokfetch = TokenFetch(tokenOk), !.nsent = @ + 1])
    /\ UNCHANGED <<config, jwkCache, served>>

\* the upstream answers
UpstreamRespond(r) ==
    /\ req[r].pc = "awaiting"
    /\ \E resp \in UpstreamResponses :
          Update(r, [req[r] EXCEPT !.pc = "responded", !.resp = resp])
    /\ UNCHANGED <<config, jwkCache, served>>

\* the answer to a request whose handler raised an exception nothing catches
UnhandledReply ==
    [status |-> 500, body |-> <<"Internal Server Error">>,
     headers |-> [k \in {"content-type"} |-> <<"text/plain; charset=utf-8">>]]

UpstreamFail_Retry(r) ==
    /\ req[r].pc = "awaiting"
    /\ \E kind \in {"connect", "timeout"} :
          IF req[r].nsent < 2
          THEN Update(r, [req[r] EXCEPT !.failure = kind, !.nsent = @ + 1])
          ELSE Update(r, [req[r] EXCEPT !.pc = "done", !.failure = kind,
                             !.reply = UnhandledReply])
    /\ UNCHANGED <<config, jwkCache, served>>

\* client.request raises httpx.ConnectError (connection failure) or a
\* httpx.TimeoutException; nothing catches it
UpstreamFail(r) ==
    /\ req[r].pc = "awaiting"
    /\ \E kind \in {"connect", "timeout"} :
          Update(r, [req[r] EXCEPT !.pc = "done", !.failure = kind,
                             !.reply = UnhandledReply])
    /\ UNCHANGED <<config, jwkCache, served>>

\* the handler returns the Response built from the upstream response
Relay(r) ==
    /\ req[r].pc = "responded"
    /\ Update(r, [req[r] EXCEPT !.pc = "done",
                     !.reply = RelayResponse(req[r].route, req[r].resp)])
    /\ UNCHANGED <<config, jwkCache, served>>

\* the response has been sent; the slot takes the next request
Finish(r) ==
    /\ req[r].pc = "done"
    /\ served < MaxServed
    /\ served' = served + 1
    /\ Update(r, Idle)
    /\ UNCHANGED <<config, jwkCache>>

Slots == {"r1"}

\* the AI service and the API service before any request reaches them
AiIdle == [pc |-> "idle", endpoint |-> "", x_user_id |-> None, query_user_id |-> None,
           body |-> "", user_id |-> None, reply |-> NoReply]

NoItems == [i \in {} |-> NoHeaders]

ApiIdle == [op |-> "", x_user_id |-> None, item_id |-> 0, data |-> NoHeaders,
            status |-> 0, before |-> NoItems]

ServicesIdle ==
    /\ openai_client = "none" /\ aiReq = AiIdle
    /\ db = "none" /\ items = NoItems /\ creator = NoItems /\ apiReq = ApiIdle

\* the module-level configuration: jwks_client exists only outside development
Init ==
    /\ ENVIRONMENT \in Environments
    /\ TEST_BYPASS_TOKEN \in {<<>>, BypassT}
    /\ IS_CLOUD_RUN \in BOOLEAN
    /\ jwks_client \in (IF ENVIRONMENT # "development" THEN {"none", "client"} ELSE {"none"})
    /\ jwkCache = "empty"
    /\ req = [r \in Slots |-> Idle]
    /\ served = 0
    /\ ServicesIdle

Next ==
    \/ \E r \in Slots : ReceiveProxy(r)
    \/ \E r \in Slots : ReceiveLocal(r)
    \/ \E r \in Slots : Dispatch(r)
    \/ \E r \in Slots : Verify(r)
    \/ \E r \in Slots : Forward(r)
    \/ \E r \in Slots : UpstreamRespond(r)
    \/ \E r \in Slots : UpstreamFail(r)
    \/ \E r \in Slots : Relay(r)
    \/ \E r \in Slots : Finish(r)

Spec == Init /\ [][Next]_vars

(***************************************************************************)
(* The proxy in detail: every method, paths with and without parameter,    *)
(* query strings, bodies, and upstream responses of every kind.  The       *)
(* credentials are a few that verify_token accepts or rejects.             *)
(***************************************************************************)
AnyMethods == ProxyMethods \cup {"HEAD"}

AnyPaths ==
    { ApiPrefix \o <<"users", "/", "me">>,
      ApiPrefix \o <<"files", "/", "upload">>,
      ApiPrefix,                                    \* /api/ : empty path parameter
      ApiPrefix \o <<"users", "/", "profile">>,
      AiPrefix \o <<"chat">>,
      AiPrefix \o <<"files", "/", "scan">>,
      <<"/", "api">>,                               \* /api
      <<"/", "aix">>,                               \* /aix
      <<"/", "v1", "/", "api", "/", "users">>,      \* /v1/api/users
      <<"/", "health">>,
      <<"/", "health", "/">>,                       \* /health/
      <<"/">> }

AnyQueries == {<<>>, <<"a=1", "&", "b=%20x">>}

AnyBodies == {<<>>, <<"{payload}">>}

AnyAuth == {None, Bearer \o BypassT, Bearer \o Jwt("hK1", "pOk", "sK1")}

Hdrs1(k1, v1) == [k \in {k1} |-> v1]
Hdrs2(k1, v1, k2, v2) == [k \in {k1, k2} |-> IF k = k1 THEN v1 ELSE v2]
Hdrs3(k1, v1, k2, v2, k3, v3) ==
    [k \in {k1, k2, k3} |-> IF k = k1 THEN v1 ELSE IF k = k2 THEN v2 ELSE v3]

\* upstream responses as httpx presents them: status_code, headers as sent, and
\* content (the body after httpx has undone any Content-Encoding)
AnyResponses ==
    { [status |-> 200, content |-> <<"{ok}">>,
       headers |-> Hdrs2("Content-Type", <<"application/json">>,
                         "Content-Length", ContentLength(<<"{ok}">>))],
      [status |-> 201, content |-> <<"{id}">>,
       headers |-> Hdrs2("content-type", <<"application/json", "; charset=utf-8">>,
                         "X-Request-Id", <<"req-1">>)],
      [status |-> 400, content |-> <<"{detail: Messages are required}">>,
       headers |-> Hdrs2("content-type", <<"application/json">>,
                         "Connection", <<"close">>)],
      [status |-> 500, content |-> <<"Internal Server Error">>,
       headers |-> Hdrs2("content-type", <<"text/plain", "; charset=utf-8">>,
                         "CONTENT-LENGTH", ContentLength(<<"Internal Server Error">>))],
      [status |-> 200, content |-> <<"file-bytes">>,
       headers |-> Hdrs3("Content-Type", <<"application/octet-stream">>,
                         "Content-Encoding", <<"gzip">>,
                         "Content-Length", ContentLength(<<"gzip(file-bytes)">>))],
      [status |-> 200, content |-> <<"<html>">>,
       headers |-> Hdrs2("content-type", <<"text/html">>,
                         "TRANSFER-ENCODING", <<"chunked">>)],
      [status |-> 204, content |-> <<>>,
       headers |-> Hdrs1("X-Request-Id", <<"req-2">>)],
      [status |-> 502, content |-> <<"upstream says bad gateway">>,
       headers |-> Hdrs1("Content-Length", ContentLength(<<"upstream says bad gateway">>))] }

\* a client sends any request
ReceiveAny(r) ==
    /\ req[r].pc = "idle"
    /\ served < MaxServed
    /\ \E method \in AnyMethods, path \in AnyPaths, query \in AnyQueries,
          body \in AnyBodies, auth \in AnyAuth :
          Update(r, [Idle EXCEPT !.pc = "received", !.method = method,
                                 !.path = path, !.query = query, !.body = body,
                                 !.headers = InboundHeaders(auth, FALSE)])
    /\ UNCHANGED <<config, jwkCache, served>>

\* the upstream answers with any response
UpstreamRespondAny(r) ==
    /\ req[r].pc = "awaiting"
    /\ \E resp \in AnyResponses :
          Update(r, [req[r] EXCEPT !.pc = "responded", !.resp = resp])
    /\ UNCHANGED <<config, jwkCache, served>>

NextProxy ==
    \/ \E r \in Slots : ReceiveAny(r)
    \/ \E r \in Slots : Dispatch(r)
    \/ \E r \in Slots : Verify(r)
    \/ \E r \in Slots : Forward(r)
    \/ \E r \in Slots : UpstreamRespondAny(r)
    \/ \E r \in Slots : UpstreamFail(r)
    \/ \E r \in Slots : Relay(r)

SpecProxy == Init /\ [][NextProxy]_vars

(***************************************************************************)
(* The gateway at rest, for the specifications of the upstream services.   *)
(***************************************************************************)
GatewayIdle ==
    /\ ENVIRONMENT = "development" /\ TEST_BYPASS_TOKEN = <<>>
    /\ IS_CLOUD_RUN = FALSE /\ jwks_client = "none" /\ jwkCache = "empty"
    /\ req = [r \in Slots |-> Idle] /\ served = 0

gateway == <<config, jwkCache, req, served>>

(***************************************************************************)
(* The AI service (src/services/ai/main.py): POST /chat, /analyze and      *)
(* /embeddings.                                                            *)
(***************************************************************************)
AiEndpoints == {"chat", "analyze", "embeddings"}

\* the function object that is the default value of the user_id parameter
FunctionObject == <<"<function get_user_from_headers>">>

\* get_user_from_headers(x_user_id): 401 unless the header has a non-empty value
get_user_from_headers(x_user_id) ==
    IF x_user_id = None \/ x_user_id = <<>>
    THEN [status |-> 401, detail |-> <<"User not authenticated">>, user_id |-> None]
    ELSE [status |-> 200, detail |-> <<>>, user_id |-> x_user_id]

\* `user_id: str = get_user_from_headers`: the parameter is declared with the
\* function as its default value, not as a dependency, so it is an optional
\* query parameter and get_user_from_headers is never called
AiUserId(query_user_id) ==
    IF query_user_id # None THEN query_user_id ELSE FunctionObject

\* the detail of the 400 each endpoint raises for a body without its input
AiRequired(endpoint) ==
    CASE endpoint = "chat"    -> <<"Messages are required">>
      [] endpoint = "analyze" -> <<"Text is required">>
      [] OTHER                -> <<"Texts are required">>

\* the body of chat_completion / analyze_text / create_embeddings
AiHandler(endpoint, user_id, body, llmOk) ==
    IF openai_client = "none"
    THEN ErrorReply(503, <<"OpenAI client not configured">>)
    ELSE IF body = "not-json"
    THEN UnhandledReply
    ELSE IF body = "empty-object"
    THEN ErrorReply(400, AiRequired(endpoint))
    ELSE IF ~llmOk
    THEN ErrorReply(500, <<"openai error">>)
    ELSE [status |-> 200, body |-> <<"{response, model, usage, user_id}">>,
          json |-> [user_id |-> user_id],
          headers |-> [k \in {"content-type"} |-> <<"application/json">>]]

AiUserHeaders == {None, <<>>, <<"user_1">>}
AiQueryUserIds == {None, <<"user_9">>}
AiBodies == {"not-json", "empty-object", "complete"}

\* a request reaches one of the three endpoints
AiReceive ==
    /\ aiReq.pc = "idle"
    /\ \E endpoint \in AiEndpoints, h \in AiUserHeaders, q \in AiQueryUserIds,
          body \in AiBodies :
          aiReq' = [AiIdle EXCEPT !.pc = "received", !.endpoint = endpoint,
                                  !.x_user_id = h, !.query_user_id = q, !.body = body]
    /\ UNCHANGED <<gateway, openai_client, db, items, creator, apiReq>>

\* the endpoint runs: parameters are resolved, then the handler body
AiHandle ==
    /\ aiReq.pc = "received"
    /\ \E llmOk \in BOOLEAN :
          LET user_id == AiUserId(aiReq.query_user_id) IN
          aiReq' = [aiReq EXCEPT !.pc = "done", !.user_id = user_id,
                        !.reply = AiHandler(aiReq.endpoint, user_id, aiReq.body, llmOk)]
    /\ UNCHANGED <<gateway, openai_client, db, items, creator, apiReq>>

AiFinish ==
    /\ aiReq.pc = "done"
    /\ aiReq' = AiIdle
    /\ UNCHANGED <<gateway, openai_client, db, items, creator, apiReq>>

InitAi ==
    /\ GatewayIdle
    /\ openai_client \in {"none", "client"}
    /\ aiReq = AiIdle
    /\ db = "none" /\ items = NoItems /\ creator = NoItems /\ apiReq = ApiIdle

NextAi == AiReceive \/ AiHandle \/ AiFinish

SpecAi == InitAi /\ [][NextAi]_vars

(***************************************************************************)
(* The API service (src/services/api/main.py): the item handlers over the  *)
(* Firestore collection "items".  A document is a mapping from field names *)
(* to values; document ids are generated by the store and never reused.    *)
(***************************************************************************)
MaxItems == 2       \* documents created in one behaviour

ItemIds == 1..MaxItems

Users == {<<"alice">>, <<"bob">>}

ApiUserHeaders == {None} \cup Users

\* {**doc, **upd}: the fields of upd replace those of doc
Merge(doc, upd) ==
    [k \in DOMAIN doc \cup DOMAIN upd |-> IF k \in DOMAIN upd THEN upd[k] ELSE doc[k]]

CreateBodies ==
    { Hdrs1("name", <<"n1">>),
      Hdrs2("name", <<"n1">>, "created_by", <<"bob">>) }

UpdateBodies ==
    { Hdrs1("name", <<"n2">>),
      Hdrs1("created_by", <<"alice">>),
      Hdrs1("created_by", <<"bob">>) }

\* the checks get_item, update_item and delete_item make before they act:
\* 401 without user header, 503 without database, 404 for a missing document,
\* 403 when created_by differs from the caller, and 200 otherwise
ItemAccess(x_user_id, item_id) ==
    LET user == get_user_from_headers(x_user_id) IN
    IF user.status # 200 THEN 401
    ELSE IF db = "none" THEN 503
    ELSE IF item_id \notin DOMAIN items THEN 404
    ELSE IF Get(items[item_id], "created_by", None) # user.user_id THEN 403
    ELSE 200

ApiCall(op, x_user_id, item_id, data, status) ==
    [op |-> op, x_user_id |-> x_user_id, item_id |-> item_id, data |-> data,
     status |-> status, before |-> items]

\* POST /items
create_item ==
    /\ UNCHANGED <<gateway, openai_client, aiReq, db>>
    /\ \E x_user_id \in ApiUserHeaders, data \in CreateBodies :
        LET user == get_user_from_headers(x_user_id) IN
        IF user.status # 200 \/ db = "none"
        THEN /\ apiReq' = ApiCall("create", x_user_id, 0, data,
                                  IF user.status # 200 THEN 401 ELSE 503)
             /\ UNCHANGED <<items, creator>>
        ELSE \E new \in ItemIds \ DOMAIN creator :
             LET doc == Merge(data, Hdrs3("created_by", user.user_id,
                                          "created_at", <<"now">>,
                                          "updated_at", <<"now">>)) IN
             /\ items' = [i \in DOMAIN items \cup {new} |->
                             IF i = new THEN doc ELSE items[i]]
             /\ creator' = [i \in DOMAIN creator \cup {new} |->
                               IF i = new THEN user.user_id ELSE creator[i]]
             /\ apiReq' = ApiCall("create", x_user_id, new, data, 200)

\* GET /items/{item_id}
get_item ==
    /\ UNCHANGED <<gateway, openai_client, aiReq, db>>
    /\ \E x_user_id \in ApiUserHeaders, item_id \in ItemIds :
        /\ apiReq' = ApiCall("get", x_user_id, item_id, NoHeaders,
                             ItemAccess(x_user_id, item_id))
        /\ UNCHANGED <<items, creator>>

\* PUT /items/{item_id}
update_item ==
    /\ UNCHANGED <<gateway, openai_client, aiReq, db>>
    /\ \E x_user_id \in ApiUserHeaders, item_id \in ItemIds, data \in UpdateBodies :
        LET status == ItemAccess(x_user_id, item_id) IN
        /\ apiReq' = ApiCall("update", x_user_id, item_id, data, status)
        /\ items' = IF status = 200
                    THEN [items EXCEPT ![item_id] =
                             Merge(@, Set(data, "updated_at", <<"now">>))]
                    ELSE items
        /\ UNCHANGED creator

\* DELETE /items/{item_id}
delete_item ==
    /\ UNCHANGED <<gateway, openai_client, aiReq, db>>
    /\ \E x_user_id \in ApiUserHeaders, item_id \in ItemIds :
        LET status == ItemAccess(x_user_id, item_id) IN
        /\ apiReq' = ApiCall("delete", x_user_id, item_id, NoHeaders, status)
        /\ items' = IF status = 200
                    THEN [i \in DOMAIN items \ {item_id} |-> items[i]]
                    ELSE items
        /\ UNCHANGED creator

InitApi ==
    /\ GatewayIdle
    /\ openai_client = "none" /\ aiReq = AiIdle
    /\ db \in {"none", "client"}
    /\ items = NoItems /\ creator = NoItems /\ apiReq = ApiIdle

NextApi == create_item \/ get_item \/ update_item \/ delete_item

SpecApi == InitApi /\ [][NextApi]_vars

(***************************************************************************)
(* Two requests in flight at once.  The handlers are coroutines of one     *)
(* event loop; get_auth_token is a synchronous call made inside the        *)
(* coroutine, so the loop runs nothing else until fetch_id_token returns.  *)
(* The client of a request can close its connection at any time.           *)
(***************************************************************************)
Conns == Slots \cup {"r2"}

ConcAuth ==
    { None, Bearer \o BypassT, Bearer \o Jwt("hK1", "pOk", "sK1"),
      Bearer \o Jwt("hK2", "pDev", "sK2") }

\* request q is inside the synchronous fetch_id_token call
InTokenFetch(q) == req[q].pc = "token_fetch"

\* the event loop can run a step of request r
LoopFree(r) == \A q \in DOMAIN req \ {r} : ~InTokenFetch(q)

ReceiveConc(r) ==
    /\ req[r].pc = "idle"
    /\ \E shape \in ProxyShapes, auth \in ConcAuth :
          Update(r, [Idle EXCEPT !.pc = "received", !.method = shape.method,
                                 !.path = shape.path, !.body = shape.body,
                                 !.headers = InboundHeaders(auth, FALSE)])
    /\ UNCHANGED <<config, jwkCache, served>>

\* the client closes its connection while the upstream request is in flight;
\* the server marks the connection as closed and leaves the handler running
ClientDisconnect(r) ==
    /\ req[r].pc = "awaiting"
    /\ req[r].client = "connected"
    /\ Update(r, [req[r] EXCEPT !.client = "gone"])
    /\ UNCHANGED <<config, jwkCache, served>>

\* on Cloud Run get_auth_token calls fetch_id_token
StartTokenFetch(r) ==
    /\ req[r].pc = "verified"
    /\ IS_CLOUD_RUN
    /\ Update(r, [req[r] EXCEPT !.pc = "token_fetch"])
    /\ UNCHANGED <<config, jwkCache, served>>

\* fetch_id_token returns a token or raises, and client.request is called
EndTokenFetch(r) ==
    /\ req[r].pc = "token_fetch"
    /\ \E tokenOk \in BOOLEAN :
          Update(r, [req[r] EXCEPT !.pc = "awaiting", !.out = Outbound(req[r], tokenOk),
                             !.tokfetch = TokenFetch(tokenOk), !.nsent = @ + 1])
    /\ UNCHANGED <<config, jwkCache, served>>

\* the steps of request r that the event loop runs
LoopStep(r) ==
    /\ LoopFree(r)
    /\ \/ Dispatch(r)
       \/ Verify(r)
       \/ StartTokenFetch(r)
       \/ ~IS_CLOUD_RUN /\ Forward(r)
       \/ UpstreamRespond(r)
       \/ UpstreamFail(r)
       \/ Relay(r)

InitConc ==
    /\ ENVIRONMENT \in Environments
    /\ TEST_BYPASS_TOKEN \in {<<>>, BypassT}
    /\ IS_CLOUD_RUN \in BOOLEAN
    /\ jwks_client \in (IF ENVIRONMENT # "development" THEN {"none", "client"} ELSE {"none"})
    /\ jwkCache = "empty"
    /\ req = [r \in Conns |-> Idle]
    /\ served = 0
    /\ ServicesIdle

NextConc ==
    \/ \E r \in Conns : ReceiveConc(r)
    \/ \E r \in Conns : ClientDisconnect(r)
    \/ \E r \in Conns : LoopFree(r) /\ Dispatch(r)
    \/ \E r \in Conns : LoopFree(r) /\ Verify(r)
    \/ \E r \in Conns : LoopFree(r) /\ StartTokenFetch(r)
    \/ \E r \in Conns : EndTokenFetch(r)
    \/ \E r \in Conns : LoopFree(r) /\ ~IS_CLOUD_RUN /\ Forward(r)
    \/ \E r \in Conns : LoopFree(r) /\ UpstreamRespond(r)
    \/ \E r \in Conns : LoopFree(r) /\ UpstreamFail(r)
    \/ \E r \in Conns : LoopFree(r) /\ Relay(r)

SpecConc == InitConc /\ [][NextConc]_vars

(***************************************************************************)
(* Properties.                                                             *)
(***************************************************************************)
Proxied(r) == req[r].route \in {"api", "ai"}

\* verify_token has run for the request in slot r
Verified(r) == Proxied(r) /\ req[r].pc # "routed"

Auth(r) == Authorization(req[r].headers)

\* verify_token accepted the request in slot r
Accepted(r) == req[r].pc \in {"verified", "awaiting", "responded"}
               \/ (req[r].pc = "done" /\ req[r].nsent = 1)

\* verify_token rejected the request in slot r with this status
Rejected(r, status) ==
    /\ req[r].pc = "done"
    /\ req[r].reply.status = status
    /\ req[r].user = NoUser
    /\ req[r].nsent = 0
    /\ req[r].out = NoOut

IsBypass(r) == TEST_BYPASS_TOKEN # <<>> /\ Auth(r) = Bearer \o TEST_BYPASS_TOKEN

C3_BypassGrantsAdmin ==
    \A r \in Slots :
        (Verified(r) /\ IsBypass(r)) =>
            /\ Accepted(r)
            /\ req[r].user.user_id = <<"test_admin_123">>
            /\ req[r].user.email = <<"admin@test.example.com">>
            /\ req[r].user.role = <<"admin">>
            /\ "aud" \notin DOMAIN req[r].user
            /\ req[r].fetch = "none"

C3_Witness ==
    \E r \in Slots :
        /\ Verified(r) /\ IsBypass(r)
        /\ ENVIRONMENT = "production" /\ jwks_client = "client"
        /\ req[r].route = "ai" /\ req[r].method = "POST"

\* C4: the administrative identity is granted only when the bypass token is
\* non-empty and the whole header equals "Bearer " followed by it; with an
\* empty bypass token no header (not even exactly "Bearer ") is granted it.
C4_AdminOnlyByBypass ==
    \A r \in Slots :
        req[r].user = TestAdmin =>
            /\ TEST_BYPASS_TOKEN # <<>>
            /\ req[r].headers["authorization"] = Bearer \o TEST_BYPASS_TOKEN

C4_Witness ==
    \E r \in Slots :
        /\ Verified(r) /\ TEST_BYPASS_TOKEN = <<>> /\ Auth(r) = Bearer
        /\ req[r].user # TestAdmin

\* the token of a header "Bearer <jwt>"
TokenOf(r) == Drop(Auth(r), Len(Bearer))

IsJwtHeader(r) == Auth(r) \in {Bearer \o t : t \in JwtTokens}

\* the signature verifies under the RS256 key resolved for the token's key id
SignatureVerifies(r) ==
    LET tok == TokenOf(r) IN
    /\ req[r].fetch # "failed"
    /\ \/ tok[1] = "hK1" /\ tok[5] = "sK1"
       \/ tok[1] = "hK2" /\ tok[5] = "sK2"

AudienceMatches(r) == TokenOf(r)[3] \in {"pOk", "pSub", "pDev", "pAdmin", "pExp", "pNbf"}

TimeClaimsValid(r) == TokenOf(r)[3] \notin {"pExp", "pNbf"}

\* C5: with a JWKS client configured, a header "Bearer <jwt>" resolves to the
\* token's payload claims if and only if the signature verifies under the RS256
\* key of the token's key id, the audience is the expected one and the time
\* claims present are valid; otherwise the answer is 401 and its detail carries
\* the reason.
C5_JwtAcceptedIffValid ==
    \A r \in Slots :
        (Verified(r) /\ jwks_client = "client" /\ IsJwtHeader(r) /\ ~IsBypass(r)) =>
            IF SignatureVerifies(r) /\ AudienceMatches(r) /\ TimeClaimsValid(r)
            THEN Accepted(r) /\ req[r].user = PayloadClaims(TokenOf(r)[3])
            ELSE /\ Rejected(r, 401)
                 /\ req[r].reply.body[2] = "Invalid token: "
                 /\ req[r].reply.body[3] \in
                        {"PyJWKClientConnectionError", "PyJWKClientError",
                         "InvalidAlgorithmError", "InvalidSignatureError",
                         "ImmatureSignatureError", "ExpiredSignatureError",
                         "MissingRequiredClaimError", "InvalidAudienceError"}

C5_Witness ==
    \E r \in Slots :
        /\ Verified(r) /\ jwks_client = "client"
        /\ Auth(r) = Bearer \o Jwt("hK1", "pOk", "sK1")
        /\ req[r].user = PayloadClaims("pOk")

\* C6: a present Authorization header that does not start with the literal
\* "Bearer " is answered 401 in every environment, development mode and a
\* configured bypass token included, and nothing is forwarded.
C6_MalformedHeaderIs401 ==
    \A r \in Slots :
        (Verified(r) /\ Auth(r) \in MalformedHeaders) => Rejected(r, 401)

C6_Witness ==
    \E r \in Slots :
        /\ Verified(r) /\ Auth(r) = TEST_BYPASS_TOKEN
        /\ ENVIRONMENT = "development" /\ TEST_BYPASS_TOKEN # <<>>

\* C7: a "Bearer " header that is not the bypass match, outside development
\* mode and with no JWKS client, is answered 503 and nothing is forwarded.
C7_NotConfiguredIs503 ==
    \A r \in Slots :
        (/\ Verified(r) /\ Auth(r) \in BearerHeaders /\ ~IsBypass(r)
         /\ ENVIRONMENT # "development" /\ jwks_client = "none") =>
            Rejected(r, 503) /\ req[r].fetch = "none"

C7_Witness ==
    \E r \in Slots :
        /\ Verified(r) /\ Auth(r) = Bearer \o Jwt("hK1", "pOk", "sK1")
        /\ ENVIRONMENT = "production" /\ jwks_client = "none"
        /\ TEST_BYPASS_TOKEN # <<>>

\* C8 as claimed: a failed or timed-out signing-key fetch fails the request
\* with 503.
C8_FetchFailureIs503 ==
    \A r \in Slots :
        (req[r].fetch = "failed" /\ req[r].pc = "done") => req[r].reply.status = 503

\* C8 as amended: a failed or timed-out signing-key fetch fails the request
\* with 401 whose detail is "Invalid token: " followed by the reason, like any
\* other verification error, and nothing is forwarded.
C8_FetchFailureIs401 ==
    \A r \in Slots :
        req[r].fetch = "failed" =>
            /\ Rejected(r, 401)
            /\ req[r].reply.body[2] = "Invalid token: "
            /\ req[r].reply.body[3] = "PyJWKClientConnectionError"

C8_Witness ==
    \E r \in Slots :
        /\ req[r].fetch = "failed"
        /\ Auth(r) = Bearer \o Jwt("hK1", "pOk", "sK1")

\* C9: in development with no JWKS client every "Bearer " header that is not
\* the bypass match resolves to the identity dev_user / dev@example.com, which
\* has no role, without the token being inspected; in no other environment is
\* that identity ever returned.
C9_DevelopmentIdentity ==
    \A r \in Slots :
        /\ (/\ Verified(r) /\ Auth(r) \in BearerHeaders /\ ~IsBypass(r)
            /\ ENVIRONMENT = "development" /\ jwks_client = "none") =>
               /\ Accepted(r)
               /\ req[r].user.user_id = <<"dev_user">>
               /\ req[r].user.email = <<"dev@example.com">>
               /\ DOMAIN req[r].user = {"user_id", "email"}
               /\ req[r].fetch = "none"
        /\ req[r].user = DevUser => ENVIRONMENT = "development"

C9_Witness ==
    \E r \in Slots :
        /\ Verified(r) /\ ENVIRONMENT = "development"
        /\ Auth(r) = Bearer \o Jwt("hK9", "pAud", "sX")
        /\ req[r].user = DevUser

\* C10 as claimed: in development a request to a proxy route without an
\* Authorization header is not answered 401 but forwarded.
C10_DevelopmentNoAuthForwarded ==
    \A r \in Slots :
        (/\ Verified(r) /\ Auth(r) = None /\ ENVIRONMENT = "development"
         /\ req[r].pc = "done") =>
            req[r].reply.status # 401 /\ req[r].nsent = 1

(***************************************************************************)
(* Properties of the proxy.                                                *)
(***************************************************************************)
\* the upstream answered the request in slot r and the answer was relayed
Relayed(r) == req[r].pc = "done" /\ req[r].resp # NoResp

\* C11: the relayed response has the status code and the body of the upstream
\* response, 4xx and 5xx included; the gateway never substitutes its own.
C11_StatusAndBodyRelayed ==
    \A r \in Slots :
        Relayed(r) =>
            /\ req[r].reply.status = req[r].resp.status
            /\ req[r].reply.body = req[r].resp.content

C11_Witness ==
    \E r \in Slots :
        /\ Relayed(r) /\ req[r].route = "ai" /\ req[r].method = "POST"
        /\ req[r].resp.status = 500
        /\ req[r].reply.body = <<"Internal Server Error">>

\* C12: the relayed headers never include the upstream's Content-Encoding,
\* Content-Length, Transfer-Encoding or Connection, in whatever letter case
\* the upstream wrote the name; a Content-Length of the relayed response is the
\* one computed from the relayed body.
C12_HopByHopStripped ==
    \A r \in Slots :
        Relayed(r) =>
            \A k \in DOMAIN req[r].reply.headers :
                /\ Lower(k) \notin {"content-encoding", "transfer-encoding", "connection"}
                /\ Lower(k) = "content-length" =>
                       req[r].reply.headers[k] = <<"len-of:">> \o req[r].reply.body

C12_Witness ==
    \E r \in Slots :
        /\ Relayed(r)
        /\ "Content-Encoding" \in DOMAIN req[r].resp.headers
        /\ req[r].resp.headers["Content-Length"] # req[r].reply.headers["content-length"]

\* the Content-Type the upstream sent (None when it sent none)
UpstreamContentType(r) ==
    IF \E n \in DOMAIN req[r].resp.headers : n \in {"content-type", "Content-Type"}
    THEN req[r].resp.headers[CHOOSE n \in DOMAIN req[r].resp.headers :
                                 n \in {"content-type", "Content-Type"}]
    ELSE None

RelayedContentType(r) == Get(req[r].reply.headers, "content-type", None)

\* C13 as claimed: on both routes the relayed Content-Type is exactly the
\* upstream's, and there is none when the upstream sent none.
C13_ContentTypeNeverInvented ==
    \A r \in Slots : Relayed(r) => RelayedContentType(r) = UpstreamContentType(r)

\* C13 as amended: when the upstream sent a Content-Type the relayed one is
\* exactly it, for JSON and non-JSON payloads on both routes; when the upstream
\* sent none the AI route answers application/json and the API route an empty
\* Content-Type.
C13_ContentTypePreserved ==
    \A r \in Slots :
        Relayed(r) =>
            IF UpstreamContentType(r) # None
            THEN RelayedContentType(r) = UpstreamContentType(r)
            ELSE RelayedContentType(r) =
                     (IF req[r].route = "ai" THEN <<"application/json">> ELSE <<>>)

C13_Witness ==
    \E r \in Slots :
        /\ Relayed(r) /\ req[r].route = "api"
        /\ RelayedContentType(r) = <<"application/json", "; charset=utf-8">>

\* C14: the outbound method is the inbound method; the outbound body is the
\* inbound raw body for POST, PUT and PATCH, and no body is forwarded for GET,
\* DELETE and OPTIONS, even when the inbound request carried one.
C14_MethodAndBody ==
    \A r \in Slots :
        req[r].out # NoOut =>
            /\ req[r].out.method = req[r].method
            /\ req[r].method \in {"POST", "PUT", "PATCH"} =>
                   req[r].out.content = req[r].body
            /\ req[r].method \in {"GET", "DELETE", "OPTIONS"} =>
                   req[r].out.content = None

C14_Witness ==
    \E r \in Slots :
        /\ req[r].out # NoOut /\ req[r].method = "DELETE"
        /\ req[r].body = <<"{payload}">>
        /\ req[r].out.content = None

\* the part of a path after its "/api/" or "/ai/" prefix
AfterPrefix(path) == SubSeq(path, 4, Len(path))

UnderApi(path) == Len(path) >= 3 /\ path[1] = "/" /\ path[2] = "api" /\ path[3] = "/"
UnderAi(path)  == Len(path) >= 3 /\ path[1] = "/" /\ path[2] = "ai" /\ path[3] = "/"

\* C15: the outbound URL is the route's upstream base URL, "/", the inbound
\* path without its "/api/" or "/ai/" prefix, and then "?" and the inbound
\* query string, symbol for symbol, when the query string is not empty, and
\* nothing when it is empty.
C15_OutboundUrl ==
    \A r \in Slots :
        req[r].out # NoOut =>
            LET base == IF UnderApi(req[r].path) THEN <<"http://localhost:8081">>
                        ELSE <<"http://localhost:8082">>
                tail == IF req[r].query = <<>> THEN <<>> ELSE <<"?">> \o req[r].query
            IN  req[r].out.url = base \o <<"/">> \o AfterPrefix(req[r].path) \o tail

C15_Witness ==
    \E r \in Slots :
        /\ req[r].out # NoOut
        /\ req[r].out.url = <<"http://localhost:8082", "/", "chat", "?", "a=1", "&", "b=%20x">>

\* the request in slot r has been routed
Routed(r) == req[r].pc \notin {"idle", "received"}

\* the paths of the routes that do not proxy
LocalPaths == {<<"/">>, <<"/", "health">>, <<"/", "debug", "/", "env">>}

\* C16 as claimed: a request under /api/ is forwarded only to the API service
\* and one under /ai/ only to the AI service, a request under neither is never
\* forwarded, and a path that matches no route is answered 404.
C16_UnmatchedIs404 ==
    \A r \in Slots :
        /\ req[r].out # NoOut =>
               \/ UnderApi(req[r].path) /\ StartsWith(req[r].out.url, <<"http://localhost:8081">>)
               \/ UnderAi(req[r].path) /\ StartsWith(req[r].out.url, <<"http://localhost:8082">>)
        /\ (Routed(r) /\ ~UnderApi(req[r].path) /\ ~UnderAi(req[r].path)
              /\ req[r].path \notin LocalPaths) =>
               req[r].pc = "done" /\ req[r].reply.status = 404

\* C16 as amended: a request under /api/ is forwarded only to the API service
\* and one under /ai/ only to the AI service, a request under neither is never
\* forwarded, and a path that matches no route is answered by the gateway
\* itself: with a 307 redirect when toggling its trailing slash gives a path
\* that matches a route (/api, /health/), and with 404 otherwise.
C16_RoutesToOwnUpstream ==
    \A r \in Slots :
        /\ req[r].out # NoOut =>
               \/ UnderApi(req[r].path) /\ StartsWith(req[r].out.url, <<"http://localhost:8081">>)
               \/ UnderAi(req[r].path) /\ StartsWith(req[r].out.url, <<"http://localhost:8082">>)
        /\ (~UnderApi(req[r].path) /\ ~UnderAi(req[r].path)) =>
               req[r].nsent = 0 /\ req[r].out = NoOut
        /\ (Routed(r) /\ ~UnderApi(req[r].path) /\ ~UnderAi(req[r].path)
              /\ req[r].path \notin LocalPaths) =>
               /\ req[r].pc = "done"
               /\ req[r].reply.status =
                      (IF req[r].path \in {<<"/", "api">>, <<"/", "ai">>, <<"/", "health", "/">>,
                                           <<"/", "debug", "/", "env", "/">>}
                       THEN 307 ELSE 404)

C16_Witness ==
    \E r \in Slots :
        /\ req[r].path = <<"/", "v1", "/", "api", "/", "users">>
        /\ Get(req[r].headers, "authorization", None) = Bearer \o BypassT
        /\ TEST_BYPASS_TOKEN = BypassT
        /\ req[r].pc = "done" /\ req[r].reply.status = 404

\* C17 as claimed: a failed upstream call is answered 502 when the upstream
\* was unreachable and 504 when the call timed out, never 500.
C17_UpstreamFailureIs502Or504 ==
    \A r \in Slots :
        (req[r].pc = "done" /\ req[r].failure # "") =>
            /\ req[r].failure = "connect" => req[r].reply.status = 502
            /\ req[r].failure = "timeout" => req[r].reply.status = 504
            /\ req[r].reply.status # 500

\* C18: for each inbound request at most one request is issued to an
\* upstream, whatever its outcome; a failed upstream call is never re-sent.
C18_AtMostOneUpstreamRequest ==
    \A r \in Slots :
        /\ req[r].nsent <= 1
        /\ req[r].nsent = 0 <=> req[r].out = NoOut
        /\ req[r].failure # "" => req[r].pc = "done" /\ req[r].nsent = 1

C18_Witness ==
    \E r \in Slots :
        req[r].failure = "timeout" /\ req[r].pc = "done" /\ req[r].nsent = 1

\* C19: get_auth_token never fails a request.  Outside Cloud Run no token is
\* fetched; when no token is fetched or the fetch raises, the request is
\* forwarded without any Authorization header; when a token is obtained the
\* outbound Authorization is "Bearer " and the token, requested for the base
\* URL of the request's own route.
C19_IdentityTokenBestEffort ==
    \A r \in Slots :
        /\ (Proxied(r) /\ req[r].user # NoUser /\ req[r].pc # "verified") =>
               req[r].nsent = 1
        /\ req[r].out # NoOut =>
               /\ ~IS_CLOUD_RUN => req[r].tokfetch = "none"
               /\ req[r].tokfetch \in {"none", "raised"} =>
                      \A k \in DOMAIN req[r].out.headers : Lower(k) # "authorization"
               /\ req[r].tokfetch = "ok" =>
                      req[r].out.headers["Authorization"] =
                          Bearer \o <<"id-token-for:">> \o
                              (IF UnderApi(req[r].path) THEN <<"http://localhost:8081">>
                               ELSE <<"http://localhost:8082">>)

C19_Witness ==
    \E r \in Slots :
        /\ req[r].out # NoOut /\ req[r].tokfetch = "raised"
        /\ "authorization" \in DOMAIN req[r].headers
        /\ req[r].route = "ai"

\* C20: GET / and GET /health answer 200 with JSON that has service "gateway"
\* and status "healthy", with or without an Authorization header and whatever
\* the authentication configuration, and without any upstream call.
C20_RootAndHealth ==
    \A r \in Slots :
        (Routed(r) /\ req[r].method = "GET"
           /\ req[r].path \in {<<"/">>, <<"/", "health">>}) =>
            /\ req[r].pc = "done"
            /\ req[r].reply.status = 200
            /\ req[r].reply.json.service = <<"gateway">>
            /\ req[r].reply.json.status = <<"healthy">>
            /\ req[r].nsent = 0 /\ req[r].out = NoOut /\ req[r].fetch = "none"

C20_Witness ==
    \E r \in Slots :
        /\ Routed(r) /\ req[r].method = "GET" /\ req[r].path = <<"/", "health">>
        /\ "authorization" \notin DOMAIN req[r].headers
        /\ ENVIRONMENT = "production" /\ jwks_client = "none"

\* C23 as claimed: credential verification completes before the route is
\* resolved: a request whose route is known has been verified or rejected.
C23_VerifyBeforeRoute ==
    \A r \in Slots :
        req[r].route # "" =>
            \/ req[r].user # NoUser
            \/ req[r].pc = "done" /\ req[r].reply.status \in {401, 503}

\* C23 as amended: within one request the steps occur in the order resolve
\* route, verify credential, forward, relay.  Nothing is verified before the
\* route is resolved, and only for a proxy route; no upstream request is
\* issued before verification has succeeded; a response is relayed only after
\* the upstream has answered; a failed step (unmatched route, rejected
\* credential, failed upstream call) ends the request with none of the later
\* steps performed.
C23_StepsInOrder ==
    \A r \in Slots :
        /\ req[r].pc \in {"idle", "received"} =>
               /\ req[r].route = "" /\ req[r].user = NoUser /\ req[r].fetch = "none"
               /\ req[r].out = NoOut /\ req[r].resp = NoResp /\ req[r].reply = NoReply
        /\ (req[r].user # NoUser \/ req[r].fetch # "none") => Proxied(r)
        /\ req[r].out # NoOut => req[r].user # NoUser
        /\ req[r].resp # NoResp => req[r].out # NoOut
        /\ req[r].reply # NoReply <=> req[r].pc = "done"
        /\ (req[r].pc = "done" /\ ~Proxied(r)) =>
               req[r].user = NoUser /\ req[r].out = NoOut /\ req[r].resp = NoResp
        /\ (req[r].pc = "done" /\ Proxied(r) /\ req[r].user = NoUser) =>
               /\ req[r].reply.status \in {401, 503}
               /\ req[r].out = NoOut /\ req[r].resp = NoResp
        /\ req[r].failure # "" => req[r].pc = "done" /\ req[r].resp = NoResp
        /\ (req[r].pc = "done" /\ req[r].out # NoOut /\ req[r].failure = "") =>
               req[r].resp # NoResp /\ req[r].reply.status = req[r].resp.status

C23_Witness ==
    \E r \in Slots :
        /\ req[r].pc = "done" /\ req[r].route = "ai"
        /\ req[r].user = NoUser /\ req[r].fetch = "failed"
        /\ req[r].reply.status = 401 /\ req[r].nsent = 0

\* the names of the outbound headers that an upstream reads as X-User-Id
UserIdNames(r) == {k \in DOMAIN req[r].out.headers : Lower(k) = "x-user-id"}

\* C24 as claimed: whatever headers the inbound request carries, the outbound
\* request has exactly one X-User-Id header (names compared without regard to
\* letter case) and its value is the verified identity's user_id.
C24_ExactlyOneUserId ==
    \A r \in Slots :
        req[r].out # NoOut =>
            /\ Cardinality(UserIdNames(r)) = 1
            /\ \A k \in UserIdNames(r) :
                   req[r].out.headers[k] = Get(req[r].user, "user_id", <<>>)

\* C25 as claimed: the identity of every verified request has a non-empty
\* user_id, so the X-User-Id of every forwarded request is never empty.
C25_UserIdNeverEmpty ==
    \A r \in Slots :
        /\ req[r].user # NoUser =>
               "user_id" \in DOMAIN req[r].user /\ req[r].user.user_id # <<>>
        /\ req[r].out # NoOut => req[r].out.headers["X-User-Id"] # <<>>

\* C30 as claimed: GET / and GET /health are the only endpoints that answer
\* without a verified credential: a request without Authorization header that
\* reaches any other route is refused and learns nothing about the
\* authentication configuration.
C30_OnlyRootAndHealthOpen ==
    \A r \in Slots :
        (req[r].pc = "done" /\ req[r].user = NoUser) =>
            \/ req[r].route \in {"root", "health"}
            \/ /\ req[r].reply.status \in {401, 503, 404, 405, 307}
               /\ "json" \notin DOMAIN req[r].reply

\* C29 as claimed: the 60-second timeout is applied exactly to API requests
\* whose path has a segment indicating file handling, every other forwarded
\* request uses 30 seconds, and the connect timeout is 10 seconds in both cases.
C29_SeparateConnectTimeout ==
    \A r \in Slots :
        req[r].out # NoOut =>
            /\ req[r].out.timeout.read =
                   (IF UnderApi(req[r].path) /\ (\E i \in 4..Len(req[r].path) :
                                                    req[r].path[i] \in {"file", "files"})
                    THEN 60 ELSE 30)
            /\ req[r].out.timeout.connect = 10

\* C29 as amended: the timeout policy is a function of route and path only.
\* An API request whose path after /api/ contains the text "file" anywhere
\* (/api/files/upload, but also /api/users/profile) gets 60 seconds with a 10
\* second connect timeout; every other forwarded request, every AI request
\* included, gets 30 seconds for every phase, the connect phase included.
C29_TimeoutPolicy ==
    \A r \in Slots :
        req[r].out # NoOut =>
            IF UnderApi(req[r].path) /\ (\E i \in 4..Len(req[r].path) :
                                            req[r].path[i] \in {"files", "profile"})
            THEN req[r].out.timeout = [connect |-> 10, read |-> 60, write |-> 60, pool |-> 60]
            ELSE req[r].out.timeout = [connect |-> 30, read |-> 30, write |-> 30, pool |-> 30]

C29_Witness ==
    \E r \in Slots :
        /\ req[r].out # NoOut
        /\ req[r].path = <<"/", "api", "/", "users", "/", "profile">>
        /\ req[r].out.timeout.read = 60 /\ req[r].out.timeout.connect = 10

\* C21 as claimed: POST /chat, /analyze and /embeddings answer 401 to a request
\* without X-User-Id header, whether or not OpenAI is configured and whatever
\* the body.
C21_MissingUserIdIs401 ==
    (aiReq.pc = "done" /\ aiReq.x_user_id = None) => aiReq.reply.status = 401

\* C26 as claimed: every stored item's created_by is the user who created the
\* item, and GET, PUT and DELETE on a stored item by any other user answer 403
\* and leave the items unchanged.
C26_CreatedByIsCreator ==
    /\ \A i \in DOMAIN items : Get(items[i], "created_by", None) = creator[i]
    /\ (/\ apiReq.op \in {"get", "update", "delete"}
        /\ apiReq.item_id \in DOMAIN apiReq.before
        /\ apiReq.x_user_id \in Users
        /\ apiReq.x_user_id # creator[apiReq.item_id]) =>
           apiReq.status = 403 /\ items = apiReq.before

\* the identity verify_token resolves for the credential of request r
OwnIdentity(r) ==
    IF IsBypass(r) THEN TestAdmin
    ELSE IF ENVIRONMENT = "development" THEN DevUser
    ELSE PayloadClaims(TokenOf(r)[3])

\* the outbound identity headers and URL of every request are those of its own
\* credential and its own inbound request
OwnIdentityForwarded ==
    \A r \in DOMAIN req :
        /\ req[r].user # NoUser => req[r].user = OwnIdentity(r)
        /\ req[r].out # NoOut =>
               /\ req[r].out.headers["X-User-Id"] = Get(OwnIdentity(r), "user_id", <<>>)
               /\ UnderApi(req[r].path) =>
                      req[r].out.headers["X-User-Email"] = Get(OwnIdentity(r), "email", <<>>)
               /\ req[r].out.url =
                      (IF UnderApi(req[r].path) THEN <<"http://localhost:8081">>
                       ELSE <<"http://localhost:8082">>)
                          \o <<"/">> \o AfterPrefix(req[r].path)

\* a step changes the state of one request only, and not the configuration
OneRequestPerStep ==
    /\ config' = config
    /\ \A r \in DOMAIN req :
           req'[r] # req[r] => \A q \in DOMAIN req \ {r} : req'[q] = req[q]

\* C22 as claimed: with requests of different identities processed
\* concurrently, each request's outbound X-User-Id, X-User-Email and URL are
\* those of its own identity and inbound request, and no step of a request
\* writes state that another request in flight can observe.
C22_NoSharedState ==
    /\ []OwnIdentityForwarded
    /\ [][OneRequestPerStep /\ jwkCache' = jwkCache]_vars

\* C22 as amended: with requests of different identities processed
\* concurrently, each request's outbound X-User-Id, X-User-Email and URL are
\* those of its own identity and inbound request; a step of a request changes
\* no state of another request and no configuration.  The one piece of state
\* that requests share is the key set cached by the JWKS client, which the
\* verification step of a request fills for the requests verified after it.
C22_RequestsIsolated ==
    /\ []OwnIdentityForwarded
    /\ [][/\ OneRequestPerStep
          /\ jwkCache' # jwkCache =>
                 \E r \in DOMAIN req :
                     /\ req[r].pc = "routed" /\ req'[r].pc # "routed"
                     /\ jwks_client = "client"]_vars

C22_Witness ==
    /\ req["r1"].out # NoOut /\ req["r2"].out # NoOut
    /\ req["r1"].pc = "awaiting" /\ req["r2"].pc = "awaiting"
    /\ req["r1"].user = PayloadClaims("pDev") /\ req["r1"].fetch = "ok"
    /\ req["r2"].user = PayloadClaims("pOk") /\ req["r2"].fetch = "none"
    /\ req["r1"].route = "api" /\ req["r2"].route = "ai"

\* C27 as claimed: once the client of a request is gone while the upstream
\* request is in flight, the next thing that happens to the request is the
\* cancellation of the upstream request: the upstream call is not carried on to
\* its answer or its failure.
C27_CancelledOnDisconnect ==
    [][\A r \in DOMAIN req :
          (req[r].client = "gone" /\ req[r].pc = "awaiting" /\ req'[r] # req[r]) =>
              req'[r].pc = "cancelled"]_vars

\* request r is ready for a step of its own handler
Ready(r) == req[r].pc \in {"received", "routed", "verified", "responded"}

\* request q is blocked in one of the network calls
InNetworkCall(q) == req[q].pc \in {"token_fetch", "awaiting"}

\* C28 as claimed: a request blocked in a network call does not prevent other
\* in-flight requests from progressing: whenever a request is ready for its
\* next step while another is in a network call, that step can be taken.
C28_BlockedRequestBlocksNoOther ==
    \A q \in DOMAIN req : \A r \in DOMAIN req \ {q} :
        (InNetworkCall(q) /\ Ready(r)) => ENABLED LoopStep(r)

====
